---- MODULE Spec2Model ----
(***************************************************************************)
(* Model of smart-media-sorter (src/media-sorter.py).                      *)
(*                                                                         *)
(* File names are sequences of one-character strings, file contents are    *)
(* sequences of bytes (0..255) followed by zero padding up to the file's   *)
(* size.  The classifier, the header parser and the pattern matcher are    *)
(* operators; a run of main() is a state machine over the file system.     *)
(***************************************************************************)
EXTENDS Integers, Sequences, FiniteSets, TLC

Min2(a, b) == IF a <= b THEN a ELSE b
Max2(a, b) == IF a >= b THEN a ELSE b

(***************************************************************************)
(* Characters and case folding (str.lower, re.IGNORECASE on ASCII).        *)
(***************************************************************************)
UpperCs == {"A","B","C","D","E","F","G","H","I","J","K","L","M",
            "N","O","P","Q","R","S","T","U","V","W","X","Y","Z"}
LowerOf ==
    [A |-> "a", B |-> "b", C |-> "c", D |-> "d", E |-> "e", F |-> "f", G |-> "g",
     H |-> "h", I |-> "i", J |-> "j", K |-> "k", L |-> "l", M |-> "m", N |-> "n",
     O |-> "o", P |-> "p", Q |-> "q", R |-> "r", S |-> "s", T |-> "t", U |-> "u",
     V |-> "v", W |-> "w", X |-> "x", Y |-> "y", Z |-> "z"]
Digits == {"0","1","2","3","4","5","6","7","8","9"}

LowerChar(c) == IF c \in UpperCs THEN LowerOf[c] ELSE c

\* str.lower()
Lower(s) == [i \in 1..Len(s) |-> LowerChar(s[i])]

(***************************************************************************)
(* Regular expressions of the pattern tables.  A pattern is a sequence of  *)
(* atoms <<kind, arg>>: "lit" one character, "dig" one digit, "digs" one   *)
(* or more digits, "any" any run of characters, "end" the end of the text, *)
(* "alt" one of a set of literals.                                         *)
(***************************************************************************)
S(cs) == [i \in 1..Len(cs) |-> <<"lit", cs[i]>>]
D(n) == [i \in 1..n |-> <<"dig", "">>]
DigitsPlus == << <<"digs", "">> >>
AnyStar == << <<"any", "">> >>
EndAnchor == << <<"end", "">> >>
Alt(set) == << <<"alt", set>> >>

\* one literal character of a pattern against one character of the text
CharEq(pat_c, text_c, ignorecase) ==
    IF ignorecase THEN LowerChar(pat_c) = LowerChar(text_c) ELSE pat_c = text_c

\* the literal cs occurs in s at position j
LitAt(cs, s, j, ignorecase) ==
    /\ j + Len(cs) - 1 <= Len(s)
    /\ \A k \in 1..Len(cs) : CharEq(cs[k], s[j + k - 1], ignorecase)

RECURSIVE MatchHere(_, _, _, _, _)
\* atoms i.. of pattern p match a prefix of s[j..]
MatchHere(p, i, s, j, ignorecase) ==
    IF i > Len(p) THEN TRUE
    ELSE LET kind == p[i][1]
             arg  == p[i][2]
         IN CASE kind = "lit" ->
                   /\ j <= Len(s)
                   /\ CharEq(arg, s[j], ignorecase)
                   /\ MatchHere(p, i + 1, s, j + 1, ignorecase)
              [] kind = "dig" ->
                   /\ j <= Len(s)
                   /\ s[j] \in Digits
                   /\ MatchHere(p, i + 1, s, j + 1, ignorecase)
              [] kind = "digs" ->
                   \E n \in 1..(Len(s) - j + 1) :
                      /\ \A k \in j..(j + n - 1) : s[k] \in Digits
                      /\ MatchHere(p, i + 1, s, j + n, ignorecase)
              [] kind = "any" ->
                   \E n \in 0..(Len(s) - j + 1) :
                      MatchHere(p, i + 1, s, j + n, ignorecase)
              [] kind = "end" ->
                   /\ j = Len(s) + 1
                   /\ MatchHere(p, i + 1, s, j, ignorecase)
              [] kind = "alt" ->
                   \E cs \in arg :
                      /\ LitAt(cs, s, j, ignorecase)
                      /\ MatchHere(p, i + 1, s, j + Len(cs), ignorecase)

\* re.search(pattern, s, flags)
re_search(p, s, ignorecase) ==
    \E j \in 1..(Len(s) + 1) : MatchHere(p, 1, s, j, ignorecase)

(***************************************************************************)
(* DEFAULT_CONFIG                                                          *)
(***************************************************************************)
DefaultPatterns ==
    [app_icons |->
       << S(<<"i","c","o","n">>),
          S(<<"l","o","g","o">>),
          S(<<"s","p","r","i","t","e">>),
          S(<<"b","a","d","g","e">>),
          S(<<"b","u","t","t","o","n">>),
          S(<<"b","g","_">>),
          S(<<"b","a","c","k","g","r","o","u","n","d">>),
          S(<<"l","a","u","n","c","h","e","r">>),
          S(<<"d","r","a","w","a","b","l","e">>),
          S(<<"b","a","n","n","e","r">>),
          S(<<"t","o","o","l","b","a","r">>),
          S(<<"m","e","n","u">>),
          S(<<"n","o","t","i","f","i","c","a","t","i","o","n">>) >>,
     game_assets |->
       << S(<<"g","a","m","e">>),
          S(<<"l","e","v","e","l">>),
          S(<<"c","h","a","r","a","c","t","e","r">>),
          S(<<"w","e","a","p","o","n">>),
          S(<<"e","n","e","m","y">>),
          S(<<"p","o","w","e","r","u","p">>),
          S(<<"c","o","i","n">>),
          S(<<"_","a","r","t">>),
          S(<<"t","e","x","t","u","r","e">>),
          S(<<"t","i","l","e">>),
          S(<<"m","o","n","s","t","e","r">>),
          S(<<"z","o","m","b","i","e">>) >>,
     cache |->
       << S(<<"c","a","c","h","e">>),
          S(<<"t","h","u","m","b">>),
          S(<<"s","c","a","l","e","d">>),
          S(<<"t","e","m","p">>),
          S(<<"t","m","p">>),
          \* \.png\.xmp$
          S(<<".","p","n","g",".","x","m","p">>) \o EndAnchor,
          \* r\d+_\d+_orig
          S(<<"r">>) \o DigitsPlus \o S(<<"_">>) \o DigitsPlus
             \o S(<<"_","o","r","i","g">>),
          \* r\d+_\d+_scaled
          S(<<"r">>) \o DigitsPlus \o S(<<"_">>) \o DigitsPlus
             \o S(<<"_","s","c","a","l","e","d">>),
          \* _\d+x\d+\.png$
          S(<<"_">>) \o DigitsPlus \o S(<<"x">>) \o DigitsPlus
             \o S(<<".","p","n","g">>) \o EndAnchor >>,
     personal |->
       << S(<<"D","S","C","_">>),
          \* IMG_\d{8}
          S(<<"I","M","G","_">>) \o D(8),
          \* VID_\d{8}
          S(<<"V","I","D","_">>) \o D(8),
          S(<<"D","C","I","M">>),
          \* photo.*\d{4}
          S(<<"p","h","o","t","o">>) \o AnyStar \o D(4),
          \* video.*\d{4}
          S(<<"v","i","d","e","o">>) \o AnyStar \o D(4),
          \* \d{8}_\d{6}\.(mp4|avi|mov|MP4|AVI|MOV)$
          D(8) \o S(<<"_">>) \o D(6) \o S(<<".">>)
             \o Alt({<<"m","p","4">>, <<"a","v","i">>, <<"m","o","v">>,
                     <<"M","P","4">>, <<"A","V","I">>, <<"M","O","V">>})
             \o EndAnchor >>]

DefaultThresholds ==
    [icon_max_dimension |-> 256,
     thumbnail_max_dimension |-> 200,
     min_photo_dimension |-> 800,
     min_video_size_mb |-> 5]

DEFAULT_CONFIG == [patterns |-> DefaultPatterns, thresholds |-> DefaultThresholds]

\* a user configuration (load_config) whose thumbnail band lies above the icon band
WideThumbConfig ==
    [patterns |-> DefaultPatterns,
     thresholds |-> [icon_max_dimension |-> 64,
                     thumbnail_max_dimension |-> 256,
                     min_photo_dimension |-> 800,
                     min_video_size_mb |-> 5]]

\* configurations are named in the state; ConfigOf is the loaded dictionary
ConfigNames == {"default", "wide_thumb"}
ConfigOf(name) == IF name = "default" THEN DEFAULT_CONFIG ELSE WideThumbConfig

None == "None"

(***************************************************************************)
(* FileClassifier.classify_by_filename                                     *)
(***************************************************************************)
\* some pattern of the group matches (the for loop returns at the first match)
GroupMatches(group, text, ignorecase) ==
    \E k \in 1..Len(group) : re_search(group[k], text, ignorecase)

\* mutant: the personal group is left out
classify_by_filename_no_personal(patterns, filename) ==
    LET filename_lower == Lower(filename)
    IN IF GroupMatches(patterns.cache, filename_lower, TRUE) THEN "system_cache"
       ELSE IF GroupMatches(patterns.app_icons, filename_lower, FALSE) THEN "app_icons"
       ELSE IF GroupMatches(patterns.game_assets, filename_lower, FALSE) THEN "game_assets"
       ELSE None

\* mutant: the personal group is tried before the cache group
classify_by_filename_personal_first(patterns, filename) ==
    LET filename_lower == Lower(filename)
    IN IF GroupMatches(patterns.personal, filename, TRUE) THEN "personal"
       ELSE IF GroupMatches(patterns.cache, filename_lower, TRUE) THEN "system_cache"
       ELSE IF GroupMatches(patterns.app_icons, filename_lower, FALSE) THEN "app_icons"
       ELSE IF GroupMatches(patterns.game_assets, filename_lower, FALSE) THEN "game_assets"
       ELSE None

classify_by_filename(patterns, filename) ==
    LET filename_lower == Lower(filename)
    IN IF GroupMatches(patterns.cache, filename_lower, TRUE) THEN "system_cache"
       ELSE IF GroupMatches(patterns.personal, filename, TRUE) THEN "personal"
       ELSE IF GroupMatches(patterns.app_icons, filename_lower, FALSE) THEN "app_icons"
       ELSE IF GroupMatches(patterns.game_assets, filename_lower, FALSE) THEN "game_assets"
       ELSE None

(***************************************************************************)
(* Files.  A file body is [head, size, readable]: its first bytes, its     *)
(* length (bytes past head are zero) and whether open() succeeds.          *)
(***************************************************************************)
ByteAt(body, k) == IF k <= Len(body.head) THEN body.head[k] ELSE 0

\* f.seek(pos); f.read(n): at most n bytes, fewer at the end of the file
ReadAt(body, pos, n) ==
    [i \in 1..Max2(0, Min2(n, body.size - pos)) |-> ByteAt(body, pos + i)]

RECURSIVE FromBytesBig(_)
\* int.from_bytes(bs, 'big')
FromBytesBig(bs) ==
    IF Len(bs) = 0 THEN 0
    ELSE 256 * FromBytesBig(SubSeq(bs, 1, Len(bs) - 1)) + bs[Len(bs)]

RECURSIVE FromBytesLittle(_)
\* int.from_bytes(bs, 'little')
FromBytesLittle(bs) ==
    IF Len(bs) = 0 THEN 0
    ELSE bs[1] + 256 * FromBytesLittle(Tail(bs))

\* bytes.startswith
StartsWith(bs, prefix) ==
    /\ Len(bs) >= Len(prefix)
    /\ \A k \in 1..Len(prefix) : bs[k] = prefix[k]

PNG_SIGNATURE == <<137, 80, 78, 71, 13, 10, 26, 10>>
JPEG_SOI == <<255, 216>>
GIF_SIGNATURE == <<71, 73, 70>>
SOF_MARKERS == {192, 193, 194}

Dims(w, h) == [kind |-> "dims", width |-> w, height |-> h]
NoDims == [kind |-> "none"]
\* the marker loop never ends: get_dimensions does not return
Hang == [kind |-> "hang"]

(***************************************************************************)
(* ImageAnalyzer.get_dimensions                                            *)
(***************************************************************************)
RECURSIVE JpegScan(_, _, _)
\* the while loop at file position pos; visited holds the positions at which
\* an iteration has started (the file is not modified, so starting an
\* iteration twice at one position means the loop runs forever)
JpegScan(body, pos, visited) ==
    LET marker == ReadAt(body, pos, 2)
        p1 == pos + Len(marker)
    IN IF pos \in visited THEN Hang
       ELSE IF Len(marker) = 0 \/ marker[1] # 255 THEN NoDims
       \* marker[1] on a one-byte read raises IndexError, caught below
       ELSE IF Len(marker) = 1 THEN NoDims
       ELSE IF marker[2] \in SOF_MARKERS
            THEN LET height == FromBytesBig(ReadAt(body, p1 + 3, 2))
                     width == FromBytesBig(ReadAt(body, p1 + 5, 2))
                 IN Dims(width, height)
       ELSE LET sizeBytes == ReadAt(body, p1, 2)
                size == FromBytesBig(sizeBytes)
                target == p1 + Len(sizeBytes) + size - 2
            IN \* f.seek to a negative position raises OSError
               IF target < 0 THEN NoDims
               ELSE JpegScan(body, target, visited \cup {pos})

get_dimensions(body) ==
    IF ~body.readable THEN NoDims
    ELSE LET header == ReadAt(body, 0, 24)
         IN IF StartsWith(header, PNG_SIGNATURE)
            THEN Dims(FromBytesBig(ReadAt(body, 16, 4)),
                      FromBytesBig(ReadAt(body, 20, 4)))
            ELSE IF StartsWith(header, JPEG_SOI)
            THEN JpegScan(body, 0, {})
            ELSE IF StartsWith(header, GIF_SIGNATURE)
            THEN Dims(FromBytesLittle(SubSeq(header, 7, Min2(8, Len(header)))),
                      FromBytesLittle(SubSeq(header, 9, Min2(10, Len(header)))))
            ELSE NoDims

(***************************************************************************)
(* FileClassifier.classify_by_dimensions                                   *)
(***************************************************************************)
\* mutant: the thumbnail band is tested before the icon band
SizeBandThumbnailFirst(thresholds, width, height) ==
    LET max_dim == Max2(width, height)
        min_dim == Min2(width, height)
    IN IF max_dim <= thresholds.thumbnail_max_dimension THEN "thumbnails"
       ELSE IF max_dim <= thresholds.icon_max_dimension THEN "app_icons"
       ELSE IF min_dim >= thresholds.min_photo_dimension THEN "personal"
       ELSE "review"

\* mutant: the icon band excludes its upper bound
SizeBandStrict(thresholds, width, height) ==
    LET max_dim == Max2(width, height)
        min_dim == Min2(width, height)
    IN IF max_dim < thresholds.icon_max_dimension THEN "app_icons"
       ELSE IF max_dim <= thresholds.thumbnail_max_dimension THEN "thumbnails"
       ELSE IF min_dim >= thresholds.min_photo_dimension THEN "personal"
       ELSE "review"

\* the threshold bands, for determined dimensions
SizeBand(thresholds, width, height) ==
    LET max_dim == Max2(width, height)
        min_dim == Min2(width, height)
    IN IF max_dim <= thresholds.icon_max_dimension THEN "app_icons"
       ELSE IF max_dim <= thresholds.thumbnail_max_dimension THEN "thumbnails"
       ELSE IF min_dim >= thresholds.min_photo_dimension THEN "personal"
       ELSE "review"

\* "hang" when get_dimensions does not return
classify_by_dimensions(thresholds, body) ==
    LET d == get_dimensions(body)
    IN IF d.kind = "hang" THEN "hang"
       ELSE IF d.kind = "none" THEN "review"
       ELSE SizeBand(thresholds, d.width, d.height)

(***************************************************************************)
(* FileClassifier.classify_video                                           *)
(***************************************************************************)
BYTES_PER_MB == 1048576

\* size_mb > min_video_size_mb, with size_mb = getsize / (1024 * 1024)
classify_video(config, filename, body) ==
    IF GroupMatches(config.patterns.personal, filename, TRUE) THEN "personal"
    ELSE IF body.size > config.thresholds.min_video_size_mb * BYTES_PER_MB
    THEN "personal"
    ELSE "review"

(***************************************************************************)
(* os.path.splitext, mimetypes.guess_type, magic.from_file                 *)
(***************************************************************************)
\* index of the dot that starts the extension, 0 if there is none
ExtDot(name) ==
    LET dots == {i \in 1..Len(name) : name[i] = "."}
        last == CHOOSE i \in dots : \A k \in dots : k <= i
    IN IF dots = {} THEN 0
       ELSE IF \E k \in 1..(last - 1) : name[k] # "." THEN last
       ELSE 0

splitext(name) ==
    IF ExtDot(name) = 0 THEN <<name, <<>>>>
    ELSE <<SubSeq(name, 1, ExtDot(name) - 1), SubSeq(name, ExtDot(name), Len(name))>>

\* the major type of the extension's MIME type in mimetypes.types_map
\* (looked up as written, then lowercased); None for unknown extensions
guess_type(name) ==
    LET ext == Lower(splitext(name)[2])
    IN IF ext \in {<<".","p","n","g">>, <<".","j","p","g">>,
                   <<".","j","p","e","g">>, <<".","g","i","f">>} THEN "image"
       ELSE IF ext \in {<<".","m","p","4">>, <<".","a","v","i">>,
                        <<".","m","o","v">>} THEN "video"
       ELSE IF ext \in {<<".","j","s","o","n">>} THEN "application"
       ELSE IF ext \in {<<".","t","x","t">>} THEN "text"
       ELSE None

\* libmagic's content sniff: the major type for the signatures it knows,
\* application/octet-stream for other data; raises on an unreadable file
magic_from_file(body) ==
    IF ~body.readable THEN None
    ELSE IF StartsWith(body.head, PNG_SIGNATURE) THEN "image"
    ELSE IF StartsWith(body.head, <<255, 216, 255>>) THEN "image"
    ELSE IF StartsWith(body.head, <<71, 73, 70, 56>>) THEN "image"
    ELSE "application"

(***************************************************************************)
(* FileClassifier.classify_file                                            *)
(***************************************************************************)
\* mutant: the type is looked at before the filename rules
classify_file_type_first(config, has_magic, filename, body) ==
    LET category == classify_by_filename(config.patterns, filename)
        mime0 == guess_type(filename)
        mime == IF mime0 = None /\ has_magic THEN magic_from_file(body) ELSE mime0
    IN IF mime = "video" THEN classify_video(config, filename, body)
       ELSE IF category # None THEN category
       ELSE IF mime = "image" THEN classify_by_dimensions(config.thresholds, body)
       ELSE "review"

classify_file(config, has_magic, filename, body) ==
    LET category == classify_by_filename(config.patterns, filename)
        mime0 == guess_type(filename)
        mime == IF mime0 = None /\ has_magic THEN magic_from_file(body) ELSE mime0
    IN IF category # None THEN category
       ELSE IF mime = None THEN "review"
       ELSE IF mime = "image" THEN classify_by_dimensions(config.thresholds, body)
       ELSE IF mime = "video" THEN classify_video(config, filename, body)
       ELSE "review"

(***************************************************************************)
(* The file system and the state of one run of main().                     *)
(***************************************************************************)
VARIABLES
    source,          \* regular files under source_dir: records [dir, name, body]
    out,             \* files under output_dir: <<category dir, name>> -> body
    out_dirs,        \* the category directories exist (create_output_dirs)
    cache_at,        \* the cache file at each path a run may be given
    pc,              \* "idle", "running", "done", "hung"
    args,            \* the command line and environment of the current run
    use_cache,       \* main's use_cache, passed to process_files
    file_list,       \* process_files' file_list, in enumeration order
    processed,       \* _process_file_list's processed
    stats,           \* MediaSorter.stats
    duplicates,      \* MediaSorter.duplicates: fingerprint -> paths
    classifications, \* MediaSorter.classifications: path -> category
    errors,          \* MediaSorter.errors
    exit_code,       \* main's return value
    runs,            \* runs started so far
    probe,           \* the input of the last classify_file call made on its own
    verdict          \* what that call returned

vars == <<source, out, out_dirs, cache_at, pc, args, use_cache, file_list,
          processed, stats, duplicates, classifications, errors, exit_code,
          runs, probe, verdict>>

runVars == <<source, out, out_dirs, cache_at, pc, args, use_cache, file_list,
             processed, stats, duplicates, classifications, errors, exit_code,
             runs>>

MaxFiles == 2
MaxRuns == 2

Categories == {"personal", "app_icons", "game_assets", "thumbnails",
               "system_cache", "review"}
StatKeys == Categories \cup {"duplicates"}

\* config['categories'].get(category, 'review')
CategoryDir(category) ==
    CASE category = "personal" -> "personal_media"
      [] category = "app_icons" -> "app_icons"
      [] category = "game_assets" -> "game_assets"
      [] category = "thumbnails" -> "thumbnails"
      [] category = "system_cache" -> "system_cache"
      [] category = "review" -> "needs_review"
      [] OTHER -> "review"

SOURCE_DIR == "./quarantine"
OUTPUT_DIR == "./processed"

Body(head, size, readable) == [head |-> head, size |-> size, readable |-> readable]
File(dir, name, body) == [dir |-> dir, name |-> name, body |-> body]

\* str(filepath)
PathOf(f) == <<f.dir, f.name>>

(***************************************************************************)
(* Sample file contents.                                                   *)
(***************************************************************************)
BE2(n) == <<n \div 256, n % 256>>
BE4(n) == <<0, 0>> \o BE2(n)
LE2(n) == <<n % 256, n \div 256>>

\* signature, IHDR length and type, width, height
PngHeader(w, h) ==
    PNG_SIGNATURE \o <<0, 0, 0, 13, 73, 72, 68, 82>> \o BE4(w) \o BE4(h)
\* GIF89a, logical screen width and height
GifHeader(w, h) == <<71, 73, 70, 56, 57, 97>> \o LE2(w) \o LE2(h)
\* an SOF0 segment: marker, length 17, precision, height, width, 3 components
SofSegment(w, h) ==
    <<255, 192, 0, 17, 8>> \o BE2(h) \o BE2(w)
       \o <<3, 1, 34, 0, 2, 17, 1, 3, 17, 1>>
\* an APP0 (JFIF) segment of declared length 16
App0Segment == <<255, 224, 0, 16, 74, 70, 73, 70, 0, 1, 1, 0, 0, 1, 0, 1, 0, 0>>
JpegHeader(w, h) == JPEG_SOI \o App0Segment \o SofSegment(w, h)
JpegBare(w, h) == JPEG_SOI \o SofSegment(w, h)

Whole(head) == Body(head, Len(head), TRUE)

N_DSC_1 == <<"D","S","C","_","1",".","j","p","g">>
N_DSC_1_1 == <<"D","S","C","_","1","_","1",".","j","p","g">>
N_holiday == <<"h","o","l","i","d","a","y",".","J","P","G">>
N_video_clip == <<"v","i","d","e","o","_","c","l","i","p",".","m","p","4">>
N_pic_jpg == <<"p","i","c",".","j","p","g">>
N_pic_png == <<"p","i","c",".","p","n","g">>
N_shot_png == <<"s","h","o","t",".","p","n","g">>
N_cache_json == <<"c","a","c","h","e",".","j","s","o","n">>

\* a JPEG signature, a segment length of 2 and a lone FF: the marker loop
\* reads one byte where it expects two and marker[1] raises IndexError
LoneMarkerJpeg == Whole(JPEG_SOI \o <<0, 2, 255>>)

\* the files a source tree is drawn from; no two share a path
SrcUniverse ==
    { File("a", N_DSC_1, Whole(JpegHeader(1920, 1080))),
      File("b", N_DSC_1, Whole(JpegBare(640, 480))),
      File("b", N_DSC_1_1, Whole(JpegHeader(1920, 1080))),
      File("a", N_holiday, Whole(PngHeader(1920, 1080))),
      File("a", N_video_clip, Body(<<0, 0, 0, 24>>, 3 * BYTES_PER_MB, TRUE)),
      File("b", N_pic_jpg, Whole(JPEG_SOI)),
      File("a", N_pic_jpg, LoneMarkerJpeg),
      File("a", N_pic_png, Body(PngHeader(16, 16), 24, FALSE)),
      File("b", N_pic_png, Body(PngHeader(16, 16), 24, FALSE)),
      File("a", N_shot_png, Whole(PngHeader(128, 128))) }

\* the JSON document save_cache writes, as a file of the source tree when
\* the cache path lies in it (its name matches the cache pattern "cache")
CacheFileRec == File("", N_cache_json, Whole(<<123, 10, 125>>))

(***************************************************************************)
(* CacheManager                                                            *)
(***************************************************************************)
TMP_CACHE == "/tmp/cache.json"
SRC_CACHE == "./quarantine/cache.json"
OLD_CACHE == "/tmp/old_cache.json"
CachePaths == {TMP_CACHE, SRC_CACHE, OLD_CACHE}

EmptyMap == <<>>
ZeroStats == [k \in StatKeys |-> 0]

NoFile ==
    [kind |-> "absent", source_dir |-> "", output_dir |-> "",
     classifications |-> EmptyMap, stats |-> ZeroStats]

\* mutant: every saved category is review
CacheDocumentAllReview(cls, st, source_dir, output_dir) ==
    [kind |-> "json", source_dir |-> source_dir, output_dir |-> output_dir,
     classifications |-> [q \in DOMAIN cls |-> "review"], stats |-> st]

\* CacheManager.save: the document written
CacheDocument(cls, st, source_dir, output_dir) ==
    [kind |-> "json", source_dir |-> source_dir, output_dir |-> output_dir,
     classifications |-> cls, stats |-> st]

\* a cache saved earlier by a run with another output directory
StaleCache ==
    CacheDocument([p \in {PathOf(f) : f \in SrcUniverse} |-> "game_assets"],
                  [k \in StatKeys |->
                     IF k = "game_assets" THEN Cardinality(SrcUniverse) ELSE 0],
                  SOURCE_DIR, "./elsewhere")

\* mutant: the directories recorded in the cache are not compared
CacheLoadAnyDirs(doc, source_dir, output_dir) == doc.kind = "json"

\* CacheManager.load: None unless the file exists and names these directories
CacheLoadOk(doc, source_dir, output_dir) ==
    /\ doc.kind = "json"
    /\ ~(doc.source_dir # source_dir \/ doc.output_dir # output_dir)

(***************************************************************************)
(* MediaSorter                                                             *)
(***************************************************************************)
\* classify_file on the files a source tree can hold, evaluated once:
\* rows <<config, has_magic, file, category>>
ClassifyRows ==
    {<<c, m, f, classify_file(ConfigOf(c), m, f.name, f.body)>> :
        c \in ConfigNames, m \in BOOLEAN, f \in SrcUniverse \cup {CacheFileRec}}

\* self.classifier.classify_file(filepath)
Classified(c, m, f) ==
    (CHOOSE row \in ClassifyRows : row[1] = c /\ row[2] = m /\ row[3] = f)[4]

NoHash == [known |-> FALSE, head |-> <<>>, size |-> 0]

\* mutant: the digest of the first 8 bytes only
get_file_hash_prefix(body) ==
    IF body.readable
    THEN [known |-> TRUE, head |-> SubSeq(body.head, 1, Min2(8, Len(body.head))),
          size |-> 0]
    ELSE NoHash

\* the MD5 digest of the whole content, as the content it identifies;
\* None (with a recorded error) when the file cannot be opened
get_file_hash(body) ==
    IF body.readable
    THEN [known |-> TRUE, head |-> body.head, size |-> body.size]
    ELSE NoHash

\* the test of _classify_with_duplicate_check
IsDuplicate(file_hash, dups) ==
    /\ file_hash.known
    /\ file_hash \in DOMAIN dups
    /\ Len(dups[file_hash]) > 0

\* self.duplicates[file_hash].append(filepath), on a defaultdict(list)
Register(dups, file_hash, path) ==
    IF file_hash \in DOMAIN dups
    THEN [dups EXCEPT ![file_hash] = Append(@, path)]
    ELSE dups @@ (file_hash :> <<path>>)

Bump(st, key) == [st EXCEPT ![key] = @ + 1]

\* self.classifications[filepath] = category
Assign(cls, path, category) ==
    [q \in DOMAIN cls \cup {path} |-> IF q = path THEN category ELSE cls[q]]

HashError(path) == [kind |-> "hash", path |-> path]
\* mutant: the entry does not name the file
MoveErrorUnnamed(path) == [kind |-> "move", path |-> <<>>]
\* f"Move error for {filepath}: {e}"
MoveError(path) == [kind |-> "move", path |-> path]

\* mutant: the statistic's key used as the file's category
DuplicateCategoryAsStatKey == "duplicates"
\* the category forced on a duplicate
DUPLICATE_CATEGORY == "system_cache"

\* _classify_with_duplicate_check on file f of the current run: the category
\* returned ("hang" if classify_file does not return) and the fields after it
classify_with_duplicate_check(f) ==
    LET path == PathOf(f)
        file_hash == get_file_hash(f.body)
        errs == IF file_hash.known THEN errors ELSE Append(errors, HashError(path))
        dup == IsDuplicate(file_hash, duplicates)
        dups == IF ~dup /\ file_hash.known
                THEN Register(duplicates, file_hash, path)
                ELSE duplicates
        category == IF dup THEN DUPLICATE_CATEGORY
                    ELSE Classified(args.config, args.has_magic, f)
    IN IF category = "hang"
       THEN [category |-> "hang", stats |-> stats, duplicates |-> dups,
             classifications |-> classifications, errors |-> errs]
       ELSE [category |-> category,
             stats |-> LET st == IF dup THEN Bump(stats, "duplicates") ELSE stats
                       IN IF category \in DOMAIN st THEN Bump(st, category) ELSE st,
             duplicates |-> dups,
             classifications |-> Assign(classifications, path, category),
             errors |-> errs]

DigitCs == <<"0","1","2","3","4","5","6","7","8","9">>

RECURSIVE Str(_)
\* str(n) for n >= 0
Str(n) == IF n < 10 THEN <<DigitCs[n + 1]>>
          ELSE Str(n \div 10) \o <<DigitCs[(n % 10) + 1]>>

\* f"{name}_{counter}{ext}" with name, ext = os.path.splitext(filename)
Suffixed(filename, counter) ==
    splitext(filename)[1] \o <<"_">> \o Str(counter) \o splitext(filename)[2]

\* mutant: no test for an existing destination
FreeNameOverwrite(existing, dir, filename, dest, counter) == dest

RECURSIVE FreeName(_, _, _, _, _)
\* the while loop of _move_file: dest is the candidate, counter the next suffix
FreeName(existing, dir, filename, dest, counter) ==
    IF <<dir, dest>> \notin existing THEN dest
    ELSE FreeName(existing, dir, filename, Suffixed(filename, counter), counter + 1)

\* the dest_path _move_file hands to shutil.move
DestPath(existing, category, filename) ==
    <<CategoryDir(category),
      FreeName(existing, CategoryDir(category), filename, filename, 1)>>

\* shutil.move(src, dest_path) when it succeeds
Moved(tree, dest_path, body) ==
    [q \in DOMAIN tree \cup {dest_path} |-> IF q = dest_path THEN body ELSE tree[q]]

(***************************************************************************)
(* Runs of main().  The progress display and the result report print only  *)
(* and are not modelled; --verbose changes nothing else.                   *)
(***************************************************************************)
NoArgs ==
    [execute |-> FALSE, use_cache |-> None, save_cache |-> None,
     config |-> "default", has_magic |-> FALSE]

NoProbe ==
    [config |-> "default", has_magic |-> FALSE, name |-> <<>>,
     body |-> Body(<<>>, 0, TRUE)]
NoVerdict ==
    [by_filename |-> "pending", dims |-> [kind |-> "pending"],
     by_dimensions |-> "pending", category |-> "pending"]

\* the --use-cache and --save-cache arguments runs are given
UseCacheArgs == {None, TMP_CACHE, OLD_CACHE}
SaveCacheArgs == {None, TMP_CACHE, SRC_CACHE}
\* python-magic is optional and runs are taken without it: every file of
\* SrcUniverse has an extension mimetypes knows, so classify_file never
\* reaches the sniffing fallback in a run (the classifier probes cover it)
RunHasMagic == {FALSE}

\* the orders in which Path.rglob may enumerate the files
Orders(files) ==
    {o \in [1..Cardinality(files) -> files] :
        \A i, j \in 1..Cardinality(files) : i # j => o[i] # o[j]}

\* an output tree left by earlier use of the output directory
LeftoverOut ==
    (<<"personal_media", N_DSC_1_1>> :> Whole(GifHeader(8, 8)))

Init ==
    /\ source \in {s \in SUBSET SrcUniverse : Cardinality(s) <= MaxFiles}
    /\ out \in {EmptyMap, LeftoverOut}
    /\ out_dirs = (out # EmptyMap)
    /\ cache_at = [p \in CachePaths |-> IF p = OLD_CACHE THEN StaleCache ELSE NoFile]
    /\ pc = "idle"
    /\ args = NoArgs
    /\ use_cache = FALSE
    /\ file_list = <<>>
    /\ processed = 0
    /\ stats = ZeroStats
    /\ duplicates = EmptyMap
    /\ classifications = EmptyMap
    /\ errors = <<>>
    /\ exit_code = 0
    /\ runs = 0
    /\ probe = NoProbe
    /\ verdict = NoVerdict

\* main() up to the file loop: arguments, MediaSorter(), load_cache,
\* create_output_dirs and the scan of process_files
Main(execute, use_cache_arg, save_cache_arg, config, has_magic, order) ==
    LET loaded == /\ use_cache_arg # None
                  /\ CacheLoadOk(cache_at[use_cache_arg], SOURCE_DIR, OUTPUT_DIR)
    IN /\ pc = "idle"
       /\ runs < MaxRuns
       /\ runs' = runs + 1
       /\ args' = [execute |-> execute, use_cache |-> use_cache_arg,
                   save_cache |-> save_cache_arg, config |-> config,
                   has_magic |-> has_magic]
       /\ duplicates' = EmptyMap
       /\ errors' = <<>>
       /\ processed' = 0
       /\ UNCHANGED <<source, out, cache_at>>
       /\ IF use_cache_arg # None /\ ~loaded
          THEN \* "Failed to load cache": return 1
               /\ pc' = "done"
               /\ exit_code' = 1
               /\ use_cache' = FALSE
               /\ file_list' = <<>>
               /\ stats' = ZeroStats
               /\ classifications' = EmptyMap
               /\ UNCHANGED out_dirs
          ELSE /\ use_cache' = loaded
               /\ classifications' =
                     IF loaded THEN cache_at[use_cache_arg].classifications
                     ELSE EmptyMap
               /\ stats' = IF loaded THEN cache_at[use_cache_arg].stats ELSE ZeroStats
               /\ out_dirs' = (out_dirs \/ execute)
               /\ exit_code' = 0
               /\ IF source = {}
                  THEN \* "No files found": process_files returns
                       /\ pc' = "done"
                       /\ file_list' = <<>>
                  ELSE /\ pc' = "running"
                       /\ file_list' = order

\* mutant: the move is made without looking at dry_run
DryRunNever(a) == FALSE
\* dry_run = not args.execute
DryRun(a) == ~a.execute

\* one iteration of the loop of _process_file_list; moved tells whether
\* shutil.move succeeds
ProcessFile(moved) ==
    /\ pc = "running"
    /\ processed < Len(file_list)
    /\ LET f == file_list[processed + 1]
           path == PathOf(f)
           cached == use_cache /\ path \in DOMAIN classifications
           r == classify_with_duplicate_check(f)
           category == IF cached THEN classifications[path] ELSE r.category
           dest_path == DestPath(DOMAIN out, category, f.name)
           errs == IF cached THEN errors ELSE r.errors
       IN /\ processed' = processed + 1
          /\ duplicates' = IF cached THEN duplicates ELSE r.duplicates
          /\ IF category = "hang"
             THEN /\ pc' = "hung"
                  /\ errors' = errs
                  /\ UNCHANGED <<source, out, cache_at, stats, classifications>>
             ELSE /\ pc' = "running"
                  /\ stats' = IF cached THEN stats ELSE r.stats
                  /\ classifications' =
                        IF cached THEN classifications ELSE r.classifications
                  /\ IF DryRun(args)
                     THEN /\ errors' = errs
                          /\ UNCHANGED <<source, out, cache_at>>
                     ELSE IF moved
                     THEN /\ source' = source \ {f}
                          /\ out' = Moved(out, dest_path, f.body)
                          /\ cache_at' = IF f = CacheFileRec
                                         THEN [cache_at EXCEPT ![SRC_CACHE] = NoFile]
                                         ELSE cache_at
                          /\ errors' = errs
                     ELSE /\ errors' = Append(errs, MoveError(path))
                          /\ UNCHANGED <<source, out, cache_at>>
    /\ UNCHANGED <<out_dirs, args, use_cache, file_list, exit_code, runs>>

\* process_files after the loop: save_cache, then main returns 0
Finish ==
    /\ pc = "running"
    /\ processed = Len(file_list)
    /\ pc' = "done"
    /\ exit_code' = 0
    /\ IF args.save_cache # None /\ ~use_cache
       THEN /\ cache_at' = [cache_at EXCEPT ![args.save_cache] =
                              CacheDocument(classifications, stats,
                                            SOURCE_DIR, OUTPUT_DIR)]
            /\ source' = IF args.save_cache = SRC_CACHE
                         THEN source \cup {CacheFileRec}
                         ELSE source
       ELSE UNCHANGED <<source, cache_at>>
    /\ UNCHANGED <<out, out_dirs, args, use_cache, file_list, processed, stats,
                   duplicates, classifications, errors, runs>>

\* the process ends; only the file system outlives it
Exit ==
    /\ pc = "done"
    /\ pc' = "idle"
    /\ args' = NoArgs
    /\ use_cache' = FALSE
    /\ file_list' = <<>>
    /\ processed' = 0
    /\ stats' = ZeroStats
    /\ duplicates' = EmptyMap
    /\ classifications' = EmptyMap
    /\ errors' = <<>>
    /\ exit_code' = 0
    /\ UNCHANGED <<source, out, out_dirs, cache_at, runs>>

Next ==
    \/ /\ \E execute \in BOOLEAN, use_cache_arg \in UseCacheArgs,
             save_cache_arg \in SaveCacheArgs, config \in ConfigNames,
             has_magic \in RunHasMagic, order \in Orders(source) :
             Main(execute, use_cache_arg, save_cache_arg, config, has_magic, order)
       /\ UNCHANGED <<probe, verdict>>
    \/ /\ \E moved \in BOOLEAN : ProcessFile(moved)
       /\ UNCHANGED <<probe, verdict>>
    \/ /\ Finish
       /\ UNCHANGED <<probe, verdict>>
    \/ /\ Exit
       /\ UNCHANGED <<probe, verdict>>

Spec == Init /\ [][Next]_vars

(***************************************************************************)
(* The classifier applied on its own to one file: the inputs are drawn     *)
(* from ProbeInputs, ClassifyProbe applies the four functions to them.     *)
(***************************************************************************)
\* names matching rule groups, alone and in combination
RuleNames ==
    { <<"v","i","d","e","o","_","t","e","m","p",".","m","p","4">>,
      <<"v","i","d","e","o","_","c","l","i","p",".","m","p","4">>,
      <<"i","c","o","n","_","b","u","t","t","o","n",".","p","n","g">>,
      <<"p","h","o","t","o","_","2","0","2","4",".","j","p","g">>,
      <<"t","h","u","m","b","_","0","0","1",".","p","n","g">>,
      <<"i","c","o","n","_","c","a","c","h","e",".","p","n","g">>,
      <<"D","S","C","_","t","e","m","p",".","j","p","g">>,
      <<"D","S","C","_","g","a","m","e",".","p","n","g">>,
      <<"G","a","m","e","_","I","c","o","n",".","P","N","G">>,
      <<"I","M","G","_","2","0","2","4","0","1","0","1",".","j","p","g">>,
      <<"2","0","2","4","0","1","0","1","_","1","2","0","0","0","0",".","M","O","V">>,
      <<"r","1","2","_","3","4","_","o","r","i","g",".","j","p","g">>,
      <<"a","_","1","6","x","1","6",".","p","n","g">>,
      <<"l","e","v","e","l",".","t","x","t">>,
      <<"V","I","D","E","O","_","c","l","i","p","_","2","0","2","4",".","a","v","i">>,
      <<"i","m","g",".","p","n","g",".","x","m","p">> }
\* names matching no rule: an image, a video, an image, an unknown
\* extension and no extension
PlainNames ==
    { <<"h","o","l","i","d","a","y",".","J","P","G">>,
      <<"c","l","i","p",".","m","p","4">>,
      <<"p","i","c",".","g","i","f">>,
      <<"n","o","t","e","s",".","d","a","t">>,
      <<"R","E","A","D","M","E">> }

\* a file cut off after its first n bytes
Truncated(head, n) == Whole(SubSeq(head, 1, n))

WellFormedPng ==
    {Whole(PngHeader(d[1], d[2])) :
        d \in {<<16, 16>>, <<64, 64>>, <<65, 10>>, <<200, 120>>, <<201, 201>>,
               <<256, 256>>, <<257, 100>>, <<800, 800>>, <<799, 1000>>,
               <<1920, 1080>>}}
WellFormedGif == {Whole(GifHeader(300, 200)), Whole(GifHeader(10, 10))}
WellFormedJpeg ==
    {Whole(JpegHeader(1920, 1080)), Whole(JpegBare(640, 480)),
     Whole(JpegHeader(32, 32))}
TruncatedHeaders ==
    {Truncated(PngHeader(1920, 1080), n) : n \in {8, 18, 20, 22}}
       \cup {Truncated(GifHeader(300, 200), n) : n \in {3, 7}}
       \cup {Truncated(JpegBare(640, 480), n) : n \in {2, 3, 4, 6, 8}}
       \cup {Truncated(JpegHeader(640, 480), n) : n \in {5, 20, 22}}
\* a JPEG signature followed by a length field instead of a marker, an MP4
\* box, text, an empty file, a PNG that cannot be opened
OtherBodies ==
    {Whole(JPEG_SOI \o <<0, 2>> \o SofSegment(1920, 1080)),
     Whole(JPEG_SOI \o <<0, 2, 255, 255, 0>>),
     Whole(<<0, 0, 0, 24, 102, 116, 121, 112>>),
     Whole(<<104, 105, 10>>),
     Whole(<<>>),
     Body(PngHeader(16, 16), 24, FALSE)}
VideoBodies ==
    {Body(<<0, 0, 0, 24, 102, 116, 121, 112>>, n, TRUE) :
        n \in {3 * BYTES_PER_MB, 5 * BYTES_PER_MB, 5 * BYTES_PER_MB + 1,
               6 * BYTES_PER_MB}}

ProbeBodies ==
    WellFormedPng \cup WellFormedGif \cup WellFormedJpeg \cup TruncatedHeaders
       \cup OtherBodies \cup VideoBodies
\* the bodies every rule name is tried with
FewBodies ==
    {Whole(PngHeader(16, 16)), Whole(PngHeader(1920, 1080)),
     Whole(JpegHeader(1920, 1080)), Whole(GifHeader(300, 200)),
     Whole(<<104, 105, 10>>), Body(<<0, 0, 0, 24, 102, 116, 121, 112>>,
                                   3 * BYTES_PER_MB, TRUE),
     Body(<<0, 0, 0, 24, 102, 116, 121, 112>>, 6 * BYTES_PER_MB, TRUE)}

ProbeInputs ==
    {[config |-> c, has_magic |-> m, name |-> x[1], body |-> x[2]] :
        c \in ConfigNames, m \in BOOLEAN,
        x \in (RuleNames \X FewBodies) \cup (PlainNames \X ProbeBodies)}

InitClassify ==
    /\ source = {}
    /\ out = EmptyMap
    /\ out_dirs = FALSE
    /\ cache_at = [p \in CachePaths |-> NoFile]
    /\ pc = "idle"
    /\ args = NoArgs
    /\ use_cache = FALSE
    /\ file_list = <<>>
    /\ processed = 0
    /\ stats = ZeroStats
    /\ duplicates = EmptyMap
    /\ classifications = EmptyMap
    /\ errors = <<>>
    /\ exit_code = 0
    /\ runs = 0
    /\ probe \in ProbeInputs
    /\ verdict = NoVerdict

\* classify_by_filename, get_dimensions, classify_by_dimensions and
\* classify_file applied to the probe
ClassifyProbe ==
    /\ verdict = NoVerdict
    /\ verdict' =
          [by_filename |->
              classify_by_filename(ConfigOf(probe.config).patterns, probe.name),
           dims |-> get_dimensions(probe.body),
           by_dimensions |->
              classify_by_dimensions(ConfigOf(probe.config).thresholds, probe.body),
           category |->
              classify_file(ConfigOf(probe.config), probe.has_magic,
                            probe.name, probe.body)]
    /\ UNCHANGED <<probe, runVars>>

NextClassify == ClassifyProbe

SpecClassify == InitClassify /\ [][NextClassify]_vars

(***************************************************************************)
(* Properties of runs (specification Spec).                                *)
(***************************************************************************)
\* a readable file with the content of f was visited earlier in this run
SeenEarlier(f) ==
    \E i \in 1..processed :
       /\ file_list[i].body.readable
       /\ file_list[i].body.head = f.body.head
       /\ file_list[i].body.size = f.body.size

C1_Step ==
    (pc = "running" /\ ~use_cache /\ processed' = processed + 1) =>
       LET f == file_list[processed + 1]
           path == PathOf(f)
           live == Classified(args.config, args.has_magic, f)
       IN IF ~f.body.readable \/ ~SeenEarlier(f)
          THEN /\ stats'["duplicates"] = stats["duplicates"]
               /\ IF live = "hang" THEN pc' = "hung"
                  ELSE /\ path \in DOMAIN classifications'
                       /\ classifications'[path] = live
          ELSE /\ path \in DOMAIN classifications'
               /\ classifications'[path] = "system_cache"
               /\ stats'["duplicates"] = stats["duplicates"] + 1

\* C1: in a live run a file whose content was not seen earlier in the run, or
\* whose fingerprint cannot be computed, gets classify_file's category and
\* leaves the duplicates count alone; a file whose content was seen earlier
\* gets system_cache and adds exactly one to the duplicates count.
C1_DuplicateLaw == [][C1_Step]_vars

\* a live run has flagged a duplicate and has also visited an unreadable file
C1_Witness ==
    /\ pc = "running"
    /\ ~use_cache
    /\ stats["duplicates"] = 1
    /\ processed = 2
    /\ file_list[2].body.readable
    /\ classifications[PathOf(file_list[2])] = "system_cache"

\* the k-th candidate name of _move_file: the name itself, then name_k.ext
CandidateName(filename, k) == IF k = 0 THEN filename ELSE Suffixed(filename, k)

C2_Step ==
    /\ \A d \in DOMAIN out : d \in DOMAIN out' /\ out'[d] = out[d]
    /\ (out' # out) =>
          LET f == file_list[processed + 1]
              dir == CategoryDir(classifications'[PathOf(f)])
          IN /\ pc = "running"
             /\ f \notin source'
             /\ \E k \in 0..Cardinality(DOMAIN out) :
                   /\ DOMAIN out' \ DOMAIN out = {<<dir, CandidateName(f.name, k)>>}
                   /\ out'[<<dir, CandidateName(f.name, k)>>] = f.body
                   /\ \A j \in 0..(k - 1) :
                         <<dir, CandidateName(f.name, j)>> \in DOMAIN out

\* C2: a move overwrites nothing: every file of the output tree is still
\* there with its content after any step, and a moved file is stored under
\* its own name if that is free and else under name_k.ext for the smallest
\* k >= 1 that is free.
C2_NoOverwrite == [][C2_Step]_vars

\* two different files named DSC_1.jpg went to personal_media, which already
\* held DSC_1_1.jpg: the second one is DSC_1_2.jpg and all three are there
C2_Witness ==
    /\ <<"personal_media", N_DSC_1>> \in DOMAIN out
    /\ <<"personal_media", N_DSC_1_1>> \in DOMAIN out
    /\ <<"personal_media", Suffixed(N_DSC_1, 2)>> \in DOMAIN out
    /\ out[<<"personal_media", N_DSC_1>>]
          # out[<<"personal_media", Suffixed(N_DSC_1, 2)>>]
    /\ out[<<"personal_media", N_DSC_1_1>>] = LeftoverOut[<<"personal_media", N_DSC_1_1>>]

\* a step of a dry run: main starting without --execute, or a later step of it
DryStep ==
    \/ pc = "idle" /\ pc' # "idle" /\ ~args'.execute
    \/ pc \in {"running", "done"} /\ ~args.execute

\* C3 as claimed: a dry run leaves the source tree and the output tree as
\* they were, whatever the other options.
C3_DryRunChangesNoTree ==
    [][DryStep => UNCHANGED <<source, out, out_dirs>>]_vars

\* C3 amended: a dry run moves, removes and changes no file and creates no
\* directory; its only write is the cache file at the --save-cache path
\* (when given and no cache was loaded), which is a new file of the source
\* tree when that path lies in it.
C3_DryRunWritesOnlyCache ==
    [][DryStep =>
         /\ UNCHANGED <<out, out_dirs>>
         /\ \/ source' = source
            \/ /\ pc = "running" /\ pc' = "done"
               /\ args.save_cache = SRC_CACHE
               /\ ~use_cache
               /\ source' = source \cup {CacheFileRec}
         /\ (cache_at' # cache_at) =>
               /\ pc = "running" /\ pc' = "done"
               /\ args.save_cache # None
               /\ ~use_cache
               /\ \A q \in CachePaths \ {args.save_cache} : cache_at'[q] = cache_at[q]]_vars

\* a dry run over two files has ended and saved its cache into the source tree
C3_Witness ==
    /\ pc = "done"
    /\ ~args.execute
    /\ processed = 2
    /\ args.save_cache = SRC_CACHE
    /\ CacheFileRec \in source
    /\ out = EmptyMap

CategoryCount(st) ==
    st["personal"] + st["app_icons"] + st["game_assets"] + st["thumbnails"]
       + st["system_cache"] + st["review"]

C4_Inv ==
    /\ \A q \in DOMAIN classifications : classifications[q] \in Categories
    /\ (~use_cache /\ pc \in {"running", "done"}) =>
          /\ Cardinality(DOMAIN classifications) = processed
          /\ CategoryCount(stats) = processed
    /\ (~use_cache /\ pc = "done" /\ exit_code = 0) =>
          \A i \in 1..Len(file_list) :
             PathOf(file_list[i]) \in DOMAIN classifications

C4_Step ==
    (pc = "running") =>
       \A q \in DOMAIN classifications :
          q \in DOMAIN classifications' /\ classifications'[q] = classifications[q]

\* C4: when a live run ends every enumerated file has one entry in
\* classifications, counted once in the statistics, with a category among
\* the six; "duplicates" is never a file's category; an assigned category is
\* not changed during the run.
C4_OneCategoryEach == []C4_Inv /\ [][C4_Step]_vars

\* a live run over two files has ended, one of them flagged as a duplicate
C4_Witness ==
    /\ pc = "done"
    /\ ~use_cache
    /\ exit_code = 0
    /\ Len(file_list) = 2
    /\ stats["duplicates"] = 1
    /\ Cardinality(DOMAIN classifications) = 2

\* C10 as claimed: given a cache recorded for other directories (OLD_CACHE
\* holds one throughout), the run goes on and classifies every file.
C10_RejectedCacheFallsBackToLive ==
    (pc = "done" /\ args.use_cache = OLD_CACHE) =>
       \A f \in source :
          /\ PathOf(f) \in DOMAIN classifications
          /\ classifications[PathOf(f)] \in Categories

C10_Inv ==
    (pc # "idle" /\ args.use_cache = OLD_CACHE) =>
       /\ pc = "done"
       /\ exit_code = 1
       /\ ~use_cache
       /\ classifications = EmptyMap
       /\ stats = ZeroStats
       /\ processed = 0
       /\ file_list = <<>>

C10_Step ==
    (pc = "idle" /\ args'.use_cache = OLD_CACHE) =>
       UNCHANGED <<source, out, out_dirs, cache_at>>

\* C10 amended: given a cache recorded for other directories, the cache is
\* rejected in its entirety (no cached category or statistic is taken) and
\* main returns 1 at once: no file is classified or moved, no directory made.
C10_RejectedCacheAbortsRun == []C10_Inv /\ [][C10_Step]_vars

\* a run given the stale cache has ended with files left in the source tree
C10_Witness ==
    /\ pc = "done"
    /\ args.use_cache = OLD_CACHE
    /\ exit_code = 1
    /\ source # {}
    /\ cache_at[OLD_CACHE] = StaleCache

(***************************************************************************)
(* Properties of the classifier (specification SpecClassify).              *)
(***************************************************************************)
GroupOrder == <<"cache", "personal", "app_icons", "game_assets">>
GroupCategory ==
    [cache |-> "system_cache", personal |-> "personal",
     app_icons |-> "app_icons", game_assets |-> "game_assets"]

\* group g of the table has a pattern matching the filename: cache and
\* personal ignore case, the others see the lowercased name
GroupHit(patterns, g, filename) ==
    GroupMatches(patterns[g],
                 IF g = "personal" THEN filename ELSE Lower(filename),
                 g \in {"cache", "personal"})

\* C5: classify_by_filename returns the category of the first group, in the
\* order cache, personal, app_icons, game_assets, that has a matching
\* pattern, and None when no group has one; classify_file returns
\* system_cache for every name matching a cache pattern, whatever the
\* content, type, dimensions and size and whatever other groups match.
C5_CachePrecedence ==
    (verdict # NoVerdict) =>
       LET patterns == ConfigOf(probe.config).patterns
           hits == {i \in 1..Len(GroupOrder) :
                       GroupHit(patterns, GroupOrder[i], probe.name)}
           first == CHOOSE i \in hits : \A k \in hits : i <= k
       IN /\ IF hits = {} THEN verdict.by_filename = None
             ELSE verdict.by_filename = GroupCategory[GroupOrder[first]]
          /\ (1 \in hits) => verdict.category = "system_cache"

\* a name matching both a cache and a personal pattern, with the content of
\* a large photo, was classified system_cache
C5_Witness ==
    /\ verdict # NoVerdict
    /\ GroupHit(ConfigOf(probe.config).patterns, "cache", probe.name)
    /\ GroupHit(ConfigOf(probe.config).patterns, "personal", probe.name)
    /\ probe.body = Whole(PngHeader(1920, 1080))
    /\ verdict.by_filename = "system_cache"
    /\ verdict.category = "system_cache"

\* C6: with determined dimensions classify_by_dimensions returns the first
\* satisfied band of: app_icons if max <= icon_max_dimension, thumbnails if
\* max <= thumbnail_max_dimension, personal if min >= min_photo_dimension,
\* else review; with undetermined dimensions it returns review; an image
\* matching no filename rule gets that result from classify_file.
C6_DimensionBands ==
    (verdict # NoVerdict) =>
       LET t == ConfigOf(probe.config).thresholds
           d == verdict.dims
           hi == Max2(d.width, d.height)
           lo == Min2(d.width, d.height)
       IN /\ (d.kind = "dims") =>
                verdict.by_dimensions =
                   CASE hi <= t.icon_max_dimension -> "app_icons"
                     [] hi > t.icon_max_dimension
                           /\ hi <= t.thumbnail_max_dimension -> "thumbnails"
                     [] hi > t.icon_max_dimension
                           /\ hi > t.thumbnail_max_dimension
                           /\ lo >= t.min_photo_dimension -> "personal"
                     [] OTHER -> "review"
          /\ (d.kind = "none") => verdict.by_dimensions = "review"
          /\ (verdict.by_filename = None /\ guess_type(probe.name) = "image") =>
                verdict.category = verdict.by_dimensions

\* an image matching no filename rule, larger than an icon and within the
\* thumbnail bound, was classified thumbnails
C6_Witness ==
    /\ verdict # NoVerdict
    /\ verdict.by_filename = None
    /\ verdict.dims = Dims(256, 256)
    /\ probe.config = "wide_thumb"
    /\ verdict.by_dimensions = "thumbnails"
    /\ verdict.category = "thumbnails"

\* the widths and heights the well-formed sample headers encode
DimValues ==
    {8, 10, 16, 32, 64, 65, 100, 120, 200, 201, 256, 257, 300, 480, 640, 799,
     800, 1000, 1080, 1920}

\* C7 as claimed: for a well-formed PNG, JPEG (SOI, then length-prefixed
\* segments, then an SOF0/SOF1/SOF2 segment) or GIF file encoding width w
\* and height h, get_dimensions returns exactly (w, h).
C7_WellFormedDimensions ==
    (verdict # NoVerdict) =>
       \A w \in DimValues, h \in DimValues :
          (probe.body \in {Whole(PngHeader(w, h)), Whole(GifHeader(w, h)),
                           Whole(JpegBare(w, h)), Whole(JpegHeader(w, h))})
             => verdict.dims = Dims(w, h)

\* the signature of a format and nothing else recognisable: headers cut off
\* before the end of the size fields, and foreign or empty content
CutOffOrForeign ==
    TruncatedHeaders
       \cup {Whole(<<0, 0, 0, 24, 102, 116, 121, 112>>), Whole(<<104, 105, 10>>),
             Whole(<<>>)}

\* C8 as claimed: for a truncated, malformed or foreign header
\* get_dimensions returns "not determined" and the dimension path gives
\* review; a returned pair of integers is positive.
C8_TruncatedIsUndetermined ==
    (verdict # NoVerdict) =>
       /\ (probe.body \in CutOffOrForeign) =>
             /\ verdict.dims = NoDims
             /\ verdict.by_dimensions = "review"
       /\ (verdict.dims.kind = "dims") =>
             verdict.dims.width > 0 /\ verdict.dims.height > 0

N_video_temp == <<"v","i","d","e","o","_","t","e","m","p",".","m","p","4">>

\* the probe is a 3 MB file of the given name under the default configuration
Probed3MB(name) ==
    /\ verdict # NoVerdict
    /\ probe.config = "default"
    /\ probe.name = name
    /\ probe.body.size = 3 * BYTES_PER_MB

\* C9 as claimed: under the default configuration classify_file returns
\* review for a 3 MB video named video_temp.mp4.
C9_VideoTempIsReview ==
    Probed3MB(N_video_temp) => verdict.category = "review"

\* C9 amended: under the default configuration classify_file returns
\* system_cache for a 3 MB video named video_temp.mp4, whose name matches
\* the cache pattern temp; a 3 MB video whose name matches no pattern
\* (video_clip.mp4) gets review, being below the 5 MB threshold.
C9_VideoTempIsCache ==
    /\ Probed3MB(N_video_temp) =>
          /\ GroupHit(DEFAULT_CONFIG.patterns, "cache", N_video_temp)
          /\ verdict.by_filename = "system_cache"
          /\ verdict.category = "system_cache"
    /\ Probed3MB(N_video_clip) =>
          /\ verdict.by_filename = None
          /\ verdict.category = "review"

\* the 3 MB video_temp.mp4 was classified
C9_Witness ==
    /\ Probed3MB(N_video_temp)
    /\ guess_type(probe.name) = "video"
    /\ verdict.category = "system_cache"

(***************************************************************************)
(* Properties of runs, continued (specification Spec).                     *)
(***************************************************************************)
\* the end of a run that saves its cache: the document holds the categories
\* the run assigned, for the current directories
C11_SaveStep ==
    (pc = "running" /\ pc' = "done" /\ args.save_cache # None /\ ~use_cache) =>
       /\ cache_at'[args.save_cache].classifications = classifications
       /\ cache_at'[args.save_cache].stats = stats
       /\ CacheLoadOk(cache_at'[args.save_cache], SOURCE_DIR, OUTPUT_DIR)

\* a file of a run that loaded a cache holding the file's path: nothing is
\* classified or hashed, and in execute mode the file goes to the directory
\* of the saved category unless shutil.move fails
C11_UseStep ==
    (pc = "running" /\ use_cache /\ processed' = processed + 1) =>
       LET f == file_list[processed + 1]
           saved == cache_at[args.use_cache].classifications
           dir == CategoryDir(saved[PathOf(f)])
       IN (PathOf(f) \in DOMAIN saved) =>
             /\ pc' = "running"
             /\ UNCHANGED <<classifications, stats, duplicates, cache_at>>
             /\ classifications[PathOf(f)] = saved[PathOf(f)]
             /\ IF ~args.execute
                THEN UNCHANGED <<source, out, errors>>
                ELSE \/ /\ source' = source \ {f}
                        /\ errors' = errors
                        /\ \E k \in 0..Cardinality(DOMAIN out) :
                              /\ DOMAIN out' \ DOMAIN out
                                    = {<<dir, CandidateName(f.name, k)>>}
                              /\ out'[<<dir, CandidateName(f.name, k)>>] = f.body
                     \/ /\ UNCHANGED <<source, out>>
                        /\ errors' = Append(errors, MoveError(PathOf(f)))

\* C11: a run that saves its cache stores the categories it assigned; a
\* later execute run with the same directories that loads the cache moves
\* each file of the cache into the directory of its saved category, without
\* classifying it or looking for duplicates again (a file whose move fails
\* stays where it is, as C12 says).
C11_CachedCategoriesAreUsed == [][C11_SaveStep /\ C11_UseStep]_vars

\* an execute run under the default thresholds used a cache saved under
\* other thresholds: the 128 x 128 image went to thumbnails as saved
C11_Witness ==
    /\ pc = "done"
    /\ use_cache
    /\ args.execute
    /\ args.config = "default"
    /\ processed = 2
    /\ source = {}
    /\ errors = <<>>
    /\ <<"thumbnails", N_shot_png>> \in DOMAIN out
    /\ Classified("default", FALSE, File("a", N_shot_png, Whole(PngHeader(128, 128))))
          = "app_icons"

\* the entries of the error list about moves
MoveErrors(errs) == {i \in 1..Len(errs) : errs[i].kind = "move"}

\* a file of an execute run: it is moved, or it stays in the source tree and
\* one entry naming it ends the error list; either way the loop goes on
C12_Step ==
    (pc = "running" /\ args.execute /\ processed' = processed + 1
        /\ pc' # "hung") =>
       LET f == file_list[processed + 1]
       IN /\ pc' = "running"
          /\ f \in source
          /\ \/ /\ f \notin source'
                /\ out' # out
                /\ MoveErrors(errors') = MoveErrors(errors)
             \/ /\ UNCHANGED <<source, out>>
                /\ Cardinality(MoveErrors(errors')) = Cardinality(MoveErrors(errors)) + 1
                /\ errors'[Len(errors')] = [kind |-> "move", path |-> PathOf(f)]
                /\ PathOf(f) \in DOMAIN classifications'

\* the loop ends only after the last file
C12_EndStep ==
    (pc = "running" /\ pc' = "done") => processed = Len(file_list)

\* when the loop of an execute run has ended (before the cache is saved)
\* every enumerated file has a category, and the files still in the source
\* tree are those with a move error
C12_Inv ==
    (pc = "running" /\ args.execute /\ processed = Len(file_list)) =>
       /\ \A i \in 1..Len(file_list) :
             /\ PathOf(file_list[i]) \in DOMAIN classifications
             /\ (file_list[i] \in source) <=>
                   (\E k \in MoveErrors(errors) :
                       errors[k].path = PathOf(file_list[i]))
       /\ Cardinality(MoveErrors(errors))
             = Cardinality({i \in 1..Len(file_list) : file_list[i] \in source})

\* C12: in execute mode a file whose move fails stays in the source tree,
\* exactly one entry naming it is appended to errors, and the run goes on:
\* the files after it are classified and their moves attempted, the loop
\* ending only after the last file.
C12_FailedMoveGoesOn == []C12_Inv /\ [][C12_Step /\ C12_EndStep]_vars

\* an execute run has ended in which the move of the first file failed and
\* the second file was moved
C12_Witness ==
    /\ pc = "running"
    /\ processed = Len(file_list)
    /\ args.execute
    /\ Len(file_list) = 2
    /\ file_list[1] \in source
    /\ file_list[2] \notin source
    /\ MoveErrors(errors) = {Len(errors)}
    /\ errors[Len(errors)].path = PathOf(file_list[1])
    /\ DOMAIN out # {}
    /\ PathOf(file_list[2]) \in DOMAIN classifications

\* probing the dimensions of f raises an error inside get_dimensions: the
\* file cannot be opened, or the marker loop indexes a one-byte read
ProbeRaises(f) ==
    /\ f.name \in {N_pic_png, N_pic_jpg}
    /\ ~f.body.readable \/ f.body = LoneMarkerJpeg

\* C13 as claimed: an error raised while the dimensions of a file are probed
\* is caught, an entry naming the file is added to MediaSorter.errors, and
\* the file gets review.
C13_ProbeErrorsAreLogged ==
    [][(pc = "running" /\ ~use_cache /\ processed' = processed + 1
          /\ ProbeRaises(file_list[processed + 1])) =>
         LET f == file_list[processed + 1]
         IN /\ pc' = "running"
            /\ classifications'[PathOf(f)] = "review"
            /\ \E i \in (Len(errors) + 1)..Len(errors') :
                  errors'[i].path = PathOf(f)]_vars

(***************************************************************************)
(* Repeated classification by one MediaSorter (specification               *)
(* SpecReclassify): _classify_with_duplicate_check is invoked on the files *)
(* of file_list in any order and any number of times up to MaxCalls, as a  *)
(* caller holding the MediaSorter may do (process_files called again on    *)
(* the same object).  verdict is the sequence of [path, category] returned.*)
(***************************************************************************)
MaxCalls == 3

InitReclassify ==
    /\ source \in {fs \in SUBSET SrcUniverse :
                      Cardinality(fs) \in 1..MaxFiles}
    /\ file_list \in Orders(source)
    /\ args \in {[execute |-> FALSE, use_cache |-> None, save_cache |-> None,
                  config |-> c, has_magic |-> m] :
                    c \in ConfigNames, m \in RunHasMagic}
    /\ out = EmptyMap
    /\ out_dirs = FALSE
    /\ cache_at = [q \in CachePaths |-> NoFile]
    /\ pc = "running"
    /\ use_cache = FALSE
    /\ processed = 0
    /\ stats = ZeroStats
    /\ duplicates = EmptyMap
    /\ classifications = EmptyMap
    /\ errors = <<>>
    /\ exit_code = 0
    /\ runs = 1
    /\ probe = NoProbe
    /\ verdict = <<>>

\* category = self._classify_with_duplicate_check(filepath_str), on the
\* i-th file of file_list
Reclassify(i) ==
    /\ pc = "running"
    /\ Len(verdict) < MaxCalls
    /\ LET f == file_list[i]
           r == classify_with_duplicate_check(f)
       IN /\ verdict' = Append(verdict, [path |-> PathOf(f), category |-> r.category])
          /\ stats' = r.stats
          /\ duplicates' = r.duplicates
          /\ classifications' = r.classifications
          /\ errors' = r.errors
          /\ pc' = IF r.category = "hang" THEN "hung" ELSE "running"
    /\ processed' = processed + 1
    /\ UNCHANGED <<source, out, out_dirs, cache_at, args, use_cache, file_list,
                   exit_code, runs, probe>>

NextReclassify == \E i \in 1..Len(file_list) : Reclassify(i)

SpecReclassify == InitReclassify /\ [][NextReclassify]_vars

\* C14 as claimed: the invocations of _classify_with_duplicate_check on one
\* path by one MediaSorter, the file and the rules unchanged, all return
\* the same category.
C14_SamePathSameCategory ==
    \A i, j \in 1..Len(verdict) :
       (verdict[i].path = verdict[j].path) =>
          verdict[i].category = verdict[j].category

(***************************************************************************)
(* Properties of the classifier, continued (specification SpecClassify).   *)
(***************************************************************************)
\* classify_file on the probe reaches the video branch: no filename rule
\* gave a category and the type is video
ReachesVideoBranch ==
    /\ verdict # NoVerdict
    /\ verdict.by_filename = None
    /\ guess_type(probe.name) = "video"

\* C15: when classify_file reaches the video branch no personal pattern
\* matches the filename, so the re-check at the start of classify_video
\* decides nothing and the category follows from the size alone: personal
\* if the size in MB exceeds min_video_size_mb, else review.
C15_VideoRecheckDecidesNothing ==
    ReachesVideoBranch =>
       /\ ~GroupMatches(ConfigOf(probe.config).patterns.personal, probe.name, TRUE)
       /\ verdict.category =
             IF probe.body.size
                   > ConfigOf(probe.config).thresholds.min_video_size_mb * BYTES_PER_MB
             THEN "personal" ELSE "review"

\* a video matching no rule and larger than the threshold was classified
\* personal
C15_Witness ==
    /\ ReachesVideoBranch
    /\ probe.body.size = 6 * BYTES_PER_MB
    /\ verdict.category = "personal"

(***************************************************************************)
(* Properties of runs: the thumbnails category (specification Spec).       *)
(***************************************************************************)
\* C16 as claimed: in a run under the default thresholds no step assigns
\* thumbnails to a file.
C16_DefaultNeverThumbnails ==
    (pc # "idle" /\ args.config = "default") =>
       \A q \in DOMAIN classifications : classifications[q] # "thumbnails"

\* C16 amended: live classification gives thumbnails only under thresholds
\* with thumbnail_max_dimension > icon_max_dimension, so never under the
\* default ones (256 and 200), where such images are app_icons; a run that
\* loaded a cache has thumbnails exactly where the cache has it, whatever
\* its own thresholds.
C16_ThumbnailsOnlyLiveWideOrCached ==
    (pc # "idle") =>
       LET t == ConfigOf(args.config).thresholds
           saved == cache_at[args.use_cache].classifications
       IN \A q \in DOMAIN classifications :
             (classifications[q] = "thumbnails") =>
                IF use_cache
                THEN q \in DOMAIN saved /\ saved[q] = "thumbnails"
                ELSE /\ t.thumbnail_max_dimension > t.icon_max_dimension
                     /\ args.config # "default"
                     /\ stats["thumbnails"] > 0

\* a live run under the default thresholds gave app_icons to the 128 x 128
\* image, which a live run under wider thumbnail thresholds calls thumbnails
C16_Witness ==
    /\ pc = "done"
    /\ ~use_cache
    /\ args.config = "default"
    /\ <<"a", N_shot_png>> \in DOMAIN classifications
    /\ classifications[<<"a", N_shot_png>>] = "app_icons"
    /\ stats["thumbnails"] = 0
    /\ Classified("wide_thumb", FALSE,
                  File("a", N_shot_png, Whole(PngHeader(128, 128)))) = "thumbnails"

====
